---- MODULE Spec2Model ----
(***************************************************************************)
(* Model of src/screener.py: a single-run stock screener.                  *)
(*                                                                         *)
(* Text is a sequence of characters (one-character strings; a character    *)
(* outside ASCII is written by a name such as "U+1F4C9" or a romanised     *)
(* Hangul syllable, and still counts as one character).                    *)
(* Python's None and float('nan') are the records None and NaN; a number   *)
(* is Num(v), v an integer counting units of 0.0001 for prices and         *)
(* indicators, millions for market capitalisation and shares for volume.   *)
(***************************************************************************)
EXTENDS Integers, Sequences, FiniteSets, TLC

VARIABLES
    pc,         \* position of main: "start","sp500","loop","notify","done","crashed"
    BOT_TOKEN,  \* module-level configuration (line 22)
    CHAT_ID,    \* module-level configuration (line 23)
    kst_now,    \* main's run timestamp (line 150)
    sp500,      \* main's local: first listing (line 153)
    ndx,        \* main's local: second listing (line 154)
    pages,      \* the listing pages the two fetches were answered with, in order
    tickers,    \* main's local: the universe (line 155)
    i,          \* number of universe entries the loop has screened (line 159)
    hits,       \* main's local: collected results (line 158)
    last,       \* record of the latest screen_one call made by the loop
    failed,     \* indices of the universe whose screening met a failure
    sent,       \* texts main handed to send_telegram_message, in order
    posts,      \* POST requests attempted by send_telegram_message, in order
    log,        \* what the notifier printed
    err,        \* the exception that left main, or "none"
    call,       \* arguments of a function applied on its own
    ret,        \* its result
    returned    \* whether that function has been applied

vars == <<pc, BOT_TOKEN, CHAT_ID, kst_now, sp500, ndx, pages, tickers, i, hits,
          last, failed, sent, posts, log, err, call, ret, returned>>

mainVars == <<pc, BOT_TOKEN, CHAT_ID, kst_now, sp500, ndx, pages, tickers, i, hits,
              last, failed, sent, posts, log, err>>

callVars == <<call, ret, returned>>

-----------------------------------------------------------------------------
(* Bounds *)

MaxStrLen == 4        \* longest string given to chunk_text on its own
MaxChunkLen == 4      \* largest max_len given to chunk_text on its own
MaxSendChunks == 3    \* most chunks of a text given to the notifier on its own
MaxList == 1          \* most symbols in one listing
MaxHits == 3          \* most results given to the report on its own

-----------------------------------------------------------------------------
(* Python values *)

None == [t |-> "None"]
NaN == [t |-> "nan"]
Num(v) == [t |-> "num", v |-> v]

Min(a, b) == IF a <= b THEN a ELSE b
Max(a, b) == IF a >= b THEN a ELSE b

\* range(start, stop, step) for step > 0
RECURSIVE range(_, _, _)
range(start, stop, step) ==
    IF start >= stop THEN <<>>
    ELSE <<start>> \o range(start + step, stop, step)

\* s[a:b] for 0 <= a <= b
Slice(s, a, b) == SubSeq(s, a + 1, Min(b, Len(s)))

-----------------------------------------------------------------------------
(* chunk_text, lines 32-33 *)

max_len_default == 3500

\* an off-by-one in the range bound: the chunk holding only the last character is lost
chunk_text_short(s, max_len) ==
    LET starts == range(0, Len(s) - 1, max_len)
    IN  [k \in 1..Len(starts) |-> Slice(s, starts[k], starts[k] + max_len)]

chunk_text(s, max_len) ==
    LET starts == range(0, Len(s), max_len)
    IN  [k \in 1..Len(starts) |-> Slice(s, starts[k], starts[k] + max_len)]

-----------------------------------------------------------------------------
(* send_telegram_message, lines 35-45 *)

\* what requests.post does with one chunk
PostOutcomes == {"ok", "http_error", "transport_error"}

NoSend == [posts |-> <<>>, log |-> <<>>, raised |-> "none"]

\* the loop of lines 40-45 over the chunks from position k on
RECURSIVE SendParts(_, _, _, _)
SendParts(parts, outcome, k, acc) ==
    IF k > Len(parts) THEN acc
    ELSE LET attempt == [part |-> parts[k], outcome |-> outcome[k]]
         IN  IF outcome[k] = "transport_error"
             THEN \* requests.post raises outside the try of lines 42-45
                  [acc EXCEPT !.posts = Append(@, attempt),
                              !.raised = "ConnectionError"]
             ELSE IF outcome[k] = "http_error"
             THEN \* raise_for_status raises inside the try: printed, loop goes on
                  SendParts(parts, outcome, k + 1,
                      [acc EXCEPT !.posts = Append(@, attempt),
                                  !.log = Append(@, <<"send failed", k>>)])
             ELSE SendParts(parts, outcome, k + 1,
                      [acc EXCEPT !.posts = Append(@, attempt)])

\* the guard of line 36 with "and" in place of "or"
send_telegram_message_and(token, chat_id, text, outcome) ==
    IF token = "" /\ chat_id = ""
    THEN [NoSend EXCEPT !.log = <<<<"send skipped">>>>]
    ELSE SendParts(chunk_text(text, max_len_default), outcome, 1, NoSend)

\* outcome[k] is what requests.post does with the k-th chunk
send_telegram_message(token, chat_id, text, outcome) ==
    IF token = "" \/ chat_id = ""
    THEN [NoSend EXCEPT !.log = <<<<"send skipped">>>>]
    ELSE SendParts(chunk_text(text, max_len_default), outcome, 1, NoSend)

-----------------------------------------------------------------------------
(* screen_one, lines 76-144 *)

\* lines 16-17: the defaults 20000000000 and 1000000; market capitalisation
\* is counted in millions (20000000000 is beyond 32-bit integers), volume in
\* shares
MIN_MARKET_CAP == 20000
MIN_AVG_VOLUME == 1000000

Raise == [t |-> "raise"]
Empty == [t |-> "empty"]

\* Python truth value of None or a number
Truthy(x) == x # None /\ x # Num(0)

\* Python's "a or b"
PyOr(a, b) == IF Truthy(a) THEN a ELSE b

\* comparisons of floats: every comparison with nan is False
IsNum(x) == x.t = "num"
Lt(a, b) == IsNum(a) /\ IsNum(b) /\ a.v < b.v
Le(a, b) == IsNum(a) /\ IsNum(b) /\ a.v <= b.v
Gt(a, b) == IsNum(a) /\ IsNum(b) /\ a.v > b.v

\* round(float(x), 2) and round(float(x), 4) of a value counted in units of 0.0001
Round2(x) == Num(((x.v + 50) \div 100) * 100)
Round4(x) == Num(x.v)

\* lines 81-104: the metadata lookups; info_raises[k] says whether the k-th
\* read of tk.info raises; failures names the lookups that raised (each is
\* swallowed by its own handler, lines 87, 95 and 103)
Metadata(fast, info, info_raises) ==
    LET cap1 == IF fast = Raise THEN None ELSE fast
        read1 == cap1 = None
        ok1 == read1 /\ ~info_raises[1]
        cap2 == IF ok1 THEN info.marketCap ELSE cap1
        vol2 == IF ok1 THEN PyOr(info.averageVolume, info.averageDailyVolume10Day)
                ELSE None
        k == IF read1 THEN 2 ELSE 1
        read2 == vol2 = None
        ok2 == read2 /\ ~info_raises[k]
        vol3 == IF ok2 THEN PyOr(info.averageVolume, info.averageDailyVolume10Day)
                ELSE vol2
    IN  [market_cap |-> cap2, avg_volume |-> vol3,
         failures |-> (IF fast = Raise THEN {"fast_info"} ELSE {})
                        \cup (IF (read1 /\ ~ok1) \/ (read2 /\ ~ok2) THEN {"info"} ELSE {})]

\* line 106 without the comparison: only an unknown or zero value is rejected
CapTooSmall_unknown_only(market_cap) == ~Truthy(market_cap)

\* line 106
CapTooSmall(market_cap) == ~Truthy(market_cap) \/ Lt(market_cap, Num(MIN_MARKET_CAP))

\* line 108
VolTooSmall(avg_volume) == ~Truthy(avg_volume) \/ Lt(avg_volume, Num(MIN_AVG_VOLUME))

\* line 131: "cond1 and cond2 and (cond3 or cond4)"; the assignments of cond3
\* and cond4 (lines 128-129) are comments, so reading cond3 raises NameError
RuleExpr(cond1, cond2) ==
    IF ~cond1 THEN "False"
    ELSE IF ~cond2 THEN "False"
    ELSE "NameError"

\* lines 132-140
ScreenResult(ticker, bar, market_cap, avg_volume) ==
    [Ticker |-> ticker,
     Close |-> Round2(bar.Close),
     RSI |-> IF bar.rsi # NaN THEN Round2(bar.rsi) ELSE None,
     MACD |-> IF bar.macd # NaN THEN Round4(bar.macd) ELSE None,
     Signal |-> IF bar.signal # NaN THEN Round4(bar.signal) ELSE None,
     MarketCap |-> market_cap.v,
     AvgVolume |-> avg_volume.v]

\* the result of one call: value is what screen_one returns, exit the line of
\* the return, caught the exception the handler of line 142 swallowed, raised
\* the exception that left screen_one, failures every lookup or step that raised
Outcome(value, exit, caught, raised, md, downloaded) ==
    [value |-> value, exit |-> exit, caught |-> caught, raised |-> raised,
     market_cap |-> md.market_cap, avg_volume |-> md.avg_volume,
     downloaded |-> downloaded,
     failures |-> md.failures \cup ({caught, raised} \ {"none"})]

\* the handler of line 142 not covering the download of line 112
screen_one_download_escapes(ticker, in) ==
    LET md == Metadata(in.fast, in.info, in.info_raises)
    IN  IF CapTooSmall(md.market_cap) THEN Outcome(None, 107, "none", "none", md, FALSE)
        ELSE IF VolTooSmall(md.avg_volume) THEN Outcome(None, 109, "none", "none", md, FALSE)
        ELSE IF in.df = Raise THEN Outcome(None, 112, "none", "download", md, TRUE)
        ELSE IF in.df = None \/ in.df = Empty THEN Outcome(None, 114, "none", "none", md, TRUE)
        ELSE IF in.df.indicators = "raise" THEN Outcome(None, 144, "indicator", "none", md, TRUE)
        ELSE LET bar == in.df.last
                 cond1 == Le(bar.Close, bar.bb_low)
                 cond2 == Gt(bar.Close, bar.ma60)
                 rule == RuleExpr(cond1, cond2)
             IN  IF rule = "NameError" THEN Outcome(None, 144, "NameError", "none", md, TRUE)
                 ELSE IF rule = "True"
                 THEN Outcome(ScreenResult(ticker, bar, md.market_cap, md.avg_volume),
                              132, "none", "none", md, TRUE)
                 ELSE Outcome(None, 141, "none", "none", md, TRUE)

screen_one(ticker, in) ==
    LET md == Metadata(in.fast, in.info, in.info_raises)
    IN  IF CapTooSmall(md.market_cap) THEN Outcome(None, 107, "none", "none", md, FALSE)
        ELSE IF VolTooSmall(md.avg_volume) THEN Outcome(None, 109, "none", "none", md, FALSE)
        ELSE IF in.df = Raise THEN Outcome(None, 144, "download", "none", md, TRUE)
        ELSE IF in.df = None \/ in.df = Empty THEN Outcome(None, 114, "none", "none", md, TRUE)
        ELSE IF in.df.indicators = "raise" THEN Outcome(None, 144, "indicator", "none", md, TRUE)
        ELSE LET bar == in.df.last
                 cond1 == Le(bar.Close, bar.bb_low)
                 cond2 == Gt(bar.Close, bar.ma60)
                 rule == RuleExpr(cond1, cond2)
             IN  IF rule = "NameError" THEN Outcome(None, 144, "NameError", "none", md, TRUE)
                 ELSE IF rule = "True"
                 THEN Outcome(ScreenResult(ticker, bar, md.market_cap, md.avg_volume),
                              132, "none", "none", md, TRUE)
                 ELSE Outcome(None, 141, "none", "none", md, TRUE)

(* The inputs of a call: what the data provider answers *)

FastCaps == {Raise, None, Num(0), Num(MIN_MARKET_CAP - 1), Num(MIN_MARKET_CAP)}

InfoDicts ==
    [marketCap : {None, Num(MIN_MARKET_CAP - 1), Num(MIN_MARKET_CAP)},
     averageVolume : {None, Num(0), Num(MIN_AVG_VOLUME - 1), Num(MIN_AVG_VOLUME)},
     averageDailyVolume10Day : {None, Num(MIN_AVG_VOLUME)}]

MetaInputs ==
    [fast : FastCaps, info : InfoDicts, info_raises : [1..2 -> BOOLEAN]]

\* the last bar, in units of 0.0001: close 100, bands and averages around it
Bars ==
    [Close : {Num(1000000)},
     bb_low : {Num(990000), Num(1000000)},
     ma60 : {Num(990000), Num(1000000), NaN},
     rsi : {Num(349900), Num(350000), NaN},
     macd : {Num(10), Num(0), NaN},
     signal : {Num(0), NaN}]

Frames == {[t |-> "frame", indicators |-> "raise", last |-> None]}
              \cup [t : {"frame"}, indicators : {"ok"}, last : Bars]

Downloads == {Raise, None, Empty} \cup Frames

(* What the data provider answers to the calls made from main's loop: a
   selection of the inputs above that takes screen_one through each of its
   exits and each of its handlers *)

LoopMeta ==
    [fast : {Raise, Num(MIN_MARKET_CAP - 1), Num(MIN_MARKET_CAP)},
     info : {[marketCap |-> Num(MIN_MARKET_CAP), averageVolume |-> Num(MIN_AVG_VOLUME),
              averageDailyVolume10Day |-> None],
             [marketCap |-> None, averageVolume |-> None,
              averageDailyVolume10Day |-> None]},
     info_raises : {<<FALSE, FALSE>>, <<TRUE, TRUE>>}]

LoopBars ==
    [Close : {Num(1000000)},
     bb_low : {Num(990000), Num(1000000)},
     ma60 : {Num(990000)},
     rsi : {Num(349900)},
     macd : {Num(10)},
     signal : {Num(0)}]

LoopDownloads ==
    {Raise, Empty, [t |-> "frame", indicators |-> "raise", last |-> None]}
        \cup [t : {"frame"}, indicators : {"ok"}, last : LoopBars]

PassesPreFilters(md) == ~CapTooSmall(md.market_cap) /\ ~VolTooSmall(md.avg_volume)

-----------------------------------------------------------------------------
(* Strings *)

\* code points of the characters that occur in ticker symbols
CodePoint(c) ==
    CASE c = " " -> 32
      [] c = "-" -> 45
      [] c = "." -> 46
      [] c = "A" -> 65
      [] c = "B" -> 66
      [] c = "C" -> 67
      [] c = "K" -> 75
      [] c = "R" -> 82
      [] c = "a" -> 97
      [] c = "b" -> 98

\* Python's a < b on strings
RECURSIVE StrLess(_, _)
StrLess(a, b) ==
    IF b = <<>> THEN FALSE
    ELSE IF a = <<>> THEN TRUE
    ELSE IF CodePoint(a[1]) < CodePoint(b[1]) THEN TRUE
    ELSE IF CodePoint(a[1]) > CodePoint(b[1]) THEN FALSE
    ELSE StrLess(Tail(a), Tail(b))

\* str.replace(".", "-")
ReplaceDot(s) == [k \in 1..Len(s) |-> IF s[k] = "." THEN "-" ELSE s[k]]

\* str.strip()
RECURSIVE LStrip(_)
LStrip(s) == IF s # <<>> /\ s[1] = " " THEN LStrip(Tail(s)) ELSE s

RECURSIVE RStrip(_)
RStrip(s) ==
    IF s # <<>> /\ s[Len(s)] = " " THEN RStrip(SubSeq(s, 1, Len(s) - 1)) ELSE s

Strip(s) == RStrip(LStrip(s))

\* str.upper()
UpperChar(c) ==
    CASE c = "a" -> "A"
      [] c = "b" -> "B"
      [] OTHER -> c

Upper(s) == [k \in 1..Len(s) |-> UpperChar(s[k])]

\* lines 28-30
yahoo_symbol_fix(ticker) == Upper(Strip(ReplaceDot(ticker)))

Digit(d) == <<"0", "1", "2", "3", "4", "5", "6", "7", "8", "9">>[d + 1]

\* str(n) for an integer n >= 0
RECURSIVE IntStr(_)
IntStr(n) == IF n < 10 THEN <<Digit(n)>> ELSE IntStr(n \div 10) \o <<Digit(n % 10)>>

\* f"{n:,}" for an integer n >= 0
RECURSIVE IntCommas(_)
IntCommas(n) ==
    IF n < 1000 THEN IntStr(n)
    ELSE IntCommas(n \div 1000)
            \o <<",", Digit((n \div 100) % 10), Digit((n \div 10) % 10), Digit(n % 10)>>

\* the digits after the decimal point of f units of 0.0001, 0 <= f < 10000:
\* trailing zeros dropped, one digit kept
FracStr(f) ==
    IF f % 1000 = 0 THEN <<Digit(f \div 1000)>>
    ELSE IF f % 100 = 0 THEN <<Digit(f \div 1000), Digit((f \div 100) % 10)>>
    ELSE IF f % 10 = 0
    THEN <<Digit(f \div 1000), Digit((f \div 100) % 10), Digit((f \div 10) % 10)>>
    ELSE <<Digit(f \div 1000), Digit((f \div 100) % 10), Digit((f \div 10) % 10),
           Digit(f % 10)>>

\* str(x) of a float: nan, or a number counted in units of 0.0001
FloatStr(x) ==
    IF x = NaN THEN <<"n", "a", "n">>
    ELSE LET a == IF x.v < 0 THEN 0 - x.v ELSE x.v
         IN  (IF x.v < 0 THEN <<"-">> ELSE <<>>)
                \o IntStr(a \div 10000) \o <<".">> \o FracStr(a % 10000)

Spaces(n) == [k \in 1..n |-> " "]

\* f"{s:<w}" and f"{s:>w}"
LJust(s, w) == s \o Spaces(Max(0, w - Len(s)))
RJust(s, w) == Spaces(Max(0, w - Len(s))) \o s

\* sep.join(lines)
RECURSIVE Join(_, _)
Join(sep, lines) ==
    IF lines = <<>> THEN <<>>
    ELSE IF Len(lines) = 1 THEN lines[1]
    ELSE lines[1] \o sep \o Join(sep, Tail(lines))

-----------------------------------------------------------------------------
(* The ticker universe, lines 50-71 and 155 *)

\* a listing page is Raise (the request or the parse raised) or Page(tables),
\* its tables in order; a table is its column names and the symbols its symbol
\* column holds; a fetch gives Raise or Returned(list)
Page(tables) == [t |-> "page", tables |-> tables]
Returned(v) == [t |-> "returned", v |-> v]

\* line 66: "ticker" in c or "symbol" in c, for c the lower-cased column name
LowerNamesTicker(col) == col \in {"Ticker", "ticker", "Symbol"}

\* line 69: "Ticker" in col or "Symbol" in col
NamesTicker(col) == col \in {"Ticker", "Symbol"}

\* lines 68-70: the first column of the table that names a ticker
RECURSIVE TickerColumn(_)
TickerColumn(columns) ==
    IF columns = <<>> THEN None
    ELSE IF NamesTicker(columns[1]) THEN [t |-> "col", name |-> columns[1]]
    ELSE TickerColumn(Tail(columns))

\* lines 64-71 over the tables from the first on
RECURSIVE ScanTables(_)
ScanTables(tables) ==
    IF tables = <<>> THEN Raise
    ELSE IF (\E k \in DOMAIN tables[1].columns : LowerNamesTicker(tables[1].columns[k]))
            /\ TickerColumn(tables[1].columns) # None
    THEN Returned(tables[1].symbols)
    ELSE ScanTables(Tail(tables))

\* lines 50-56: Raise, or the Symbol column of the first table
get_sp500_tickers(page) ==
    IF page = Raise THEN Raise
    ELSE IF \E k \in DOMAIN page.tables[1].columns :
                page.tables[1].columns[k] = "Symbol"
    THEN Returned(page.tables[1].symbols)
    ELSE Raise

\* lines 58-71 with a failed request answered by an empty listing
get_nasdaq100_tickers_swallow(page) ==
    IF page = Raise THEN Returned(<<>>) ELSE ScanTables(page.tables)

\* lines 58-71
get_nasdaq100_tickers(page) ==
    IF page = Raise THEN Raise ELSE ScanTables(page.tables)

SetOf(xs) == {xs[k] : k \in DOMAIN xs}

\* sorted(S) for a set of strings
RECURSIVE Sorted(_)
Sorted(S) ==
    IF S = {} THEN <<>>
    ELSE LET least == CHOOSE x \in S : \A y \in S \ {x} : StrLess(x, y)
         IN  <<least>> \o Sorted(S \ {least})

\* line 155: sorted(set(sp500 + ndx))
Universe(a, b) == Sorted(SetOf(a \o b))

-----------------------------------------------------------------------------
(* The messages of main, lines 169 and 174-183 *)

\* '\U0001f4c9 [', 3 characters
NoMatchHead ==
    <<"U+1F4C9", " ", "[">>

\* ' KST] ' and the sentence saying that no ticker meets the conditions,
\* 22 characters
NoMatchTail ==
    <<" ", "K", "S", "T", "]", " ", "U+C870", "U+AC74", "U+C5D0", " ",
      "U+B9DE", "U+B294", " ", "U+C885", "U+BAA9", "U+C774", " ", "U+C5C6",
      "U+C2B5", "U+B2C8", "U+B2E4", ".">>

\* line 169 without the interpolated timestamp
NoMatchText_without_timestamp(now) == NoMatchHead \o NoMatchTail

\* line 169
NoMatchText(now) == NoMatchHead \o now \o NoMatchTail

\* '\U0001f4c8 [', 3 characters
ReportHead ==
    <<"U+1F4C8", " ", "[">>

\* ' KST] ' and the words before the count, 16 characters
ReportMid ==
    <<" ", "K", "S", "T", "]", " ", "U+C870", "U+AC74", " ", "U+CDA9",
      "U+C871", " ", "U+C885", "U+BAA9", " ", "(">>

\* the counter word, ')' and the newline, 3 characters
ReportCountTail ==
    <<"U+AC1C", ")", "\n">>

\* line 177, 48 characters
ReportRule ==
    <<"U+C870", "U+AC74", ":", " ", "B", "B", " ", "U+D558", "U+B2E8", " ",
      "U+D130", "U+CE58", " ", "&", " ", "6", "0", "M", "A", " ", "U+C704",
      " ", "&", " ", "(", "R", "S", "I", "<", "3", "5", " ", "U+B610",
      "U+B294", " ", "M", "A", "C", "D", ">", "S", "i", "g", "n", "a", "l",
      ")", "\n">>

\* line 178 up to the first threshold, 7 characters
FilterHead ==
    <<"U+D544", "U+D130", ":", " ", "U+C2DC", "U+CD1D", "U+2265">>

\* line 178 between the thresholds, 8 characters
FilterMid ==
    <<",", " ", "U+D3C9", "U+ADE0", "U+AC70", "U+B798", "U+B7C9", "U+2265">>

\* line 178; the market capitalisation is counted in millions
FilterLine ==
    FilterHead \o IntCommas(MIN_MARKET_CAP) \o <<",", "0", "0", "0", ",", "0", "0", "0">>
        \o FilterMid \o IntCommas(MIN_AVG_VOLUME) \o <<"\n">>

\* line 176
CountLine(now, n) == ReportHead \o now \o ReportMid \o IntStr(n) \o ReportCountTail

\* pd.DataFrame(hits): a column whose values are all None keeps them as
\* objects, a column with a number in it is a float column and None is nan
ColumnValue(rows, name, k) ==
    IF \A j \in DOMAIN rows : rows[j][name] = None THEN None
    ELSE IF rows[k][name] = None THEN NaN
    ELSE rows[k][name]

DataFrame(rows) ==
    [k \in DOMAIN rows |->
        [Ticker |-> rows[k].Ticker,
         Close |-> rows[k].Close,
         RSI |-> ColumnValue(rows, "RSI", k),
         MACD |-> ColumnValue(rows, "MACD", k),
         Signal |-> ColumnValue(rows, "Signal", k),
         MarketCap |-> rows[k].MarketCap,
         AvgVolume |-> rows[k].AvgVolume]]

IsNull(x) == x = None \/ x = NaN

\* the order of sort_values(["RSI", "Ticker"]) with RSI descending
RowBefore_descending(a, b) ==
    IF IsNull(a.RSI) /\ IsNull(b.RSI) THEN StrLess(a.Ticker, b.Ticker)
    ELSE IF IsNull(a.RSI) THEN FALSE
    ELSE IF IsNull(b.RSI) THEN TRUE
    ELSE IF a.RSI.v # b.RSI.v THEN a.RSI.v > b.RSI.v
    ELSE StrLess(a.Ticker, b.Ticker)

\* the order of sort_values(["RSI", "Ticker"], ascending=[True, True]): missing
\* RSI last (na_position defaults to "last"), ties by Ticker
RowBefore(a, b) ==
    IF IsNull(a.RSI) /\ IsNull(b.RSI) THEN StrLess(a.Ticker, b.Ticker)
    ELSE IF IsNull(a.RSI) THEN FALSE
    ELSE IF IsNull(b.RSI) THEN TRUE
    ELSE IF a.RSI.v # b.RSI.v THEN a.RSI.v < b.RSI.v
    ELSE StrLess(a.Ticker, b.Ticker)

\* row r put into the sorted sequence rows, after the rows that are not after it
RECURSIVE InsertRow(_, _)
InsertRow(rows, r) ==
    IF rows = <<>> THEN <<r>>
    ELSE IF RowBefore(r, rows[1]) THEN <<r>> \o rows
    ELSE <<rows[1]>> \o InsertRow(Tail(rows), r)

\* line 174: a stable sort of the frame
RECURSIVE sort_values(_)
sort_values(rows) ==
    IF rows = <<>> THEN <<>>
    ELSE InsertRow(sort_values(SubSeq(rows, 1, Len(rows) - 1)), rows[Len(rows)])

\* line 181
RowLine(r) ==
    RJust(r.Ticker, 6) \o <<" ", " ", "C", "l", "o", "s", "e", ":">>
        \o LJust(FloatStr(r.Close), 8) \o <<" ", "R", "S", "I", ":">>
        \o LJust(FloatStr(r.RSI), 5) \o <<" ", "M", "A", "C", "D", ":">>
        \o LJust(FloatStr(r.MACD), 7) \o <<" ", "S", "i", "g", ":">>
        \o LJust(FloatStr(r.Signal), 7)

\* lines 174-183: the frame, the lines and the message; formatting None with
\* a width raises TypeError
BuildReport(rows, now) ==
    LET df == sort_values(DataFrame(rows))
        head == <<CountLine(now, Len(df)), ReportRule, FilterLine>>
        bad == \E k \in DOMAIN df :
                   df[k].RSI = None \/ df[k].MACD = None \/ df[k].Signal = None
    IN  IF bad THEN [raised |-> "TypeError", df |-> df, lines |-> head, message |-> <<>>]
        ELSE LET lines == head \o [k \in DOMAIN df |-> RowLine(df[k])]
             IN  [raised |-> "none", df |-> df, lines |-> lines,
                  message |-> Join(<<"\n">>, lines)]

-----------------------------------------------------------------------------
(* State of main while a function is applied on its own *)

MainIdle ==
    /\ pc = "idle"
    /\ BOT_TOKEN = ""
    /\ CHAT_ID = ""
    /\ kst_now = <<>>
    /\ sp500 = <<>>
    /\ ndx = <<>>
    /\ pages = <<>>
    /\ tickers = <<>>
    /\ i = 0
    /\ hits = <<>>
    /\ last = None
    /\ failed = {}
    /\ sent = <<>>
    /\ posts = <<>>
    /\ log = <<>>
    /\ err = "none"

RECURSIVE SeqsUpTo(_, _)
SeqsUpTo(S, n) ==
    IF n = 0 THEN {<<>>}
    ELSE LET shorter == SeqsUpTo(S, n - 1)
         IN  shorter \cup {Append(q, c) : q \in shorter, c \in S}

-----------------------------------------------------------------------------
(* main, lines 149-185 *)

\* raw symbols as the listings spell them
RawSymbols ==
    {<<"B", "R", "K", ".", "B">>, <<"B", "R", "K", "-", "B">>, <<"a">>}

Listings == SeqsUpTo(RawSymbols, MaxList)

Table(columns, symbols) == [columns |-> columns, symbols |-> symbols]

Sp500Pages ==
    {Raise, Page(<<Table(<<"Security">>, <<>>)>>)}
        \cup {Page(<<Table(<<"Symbol", "Security">>, l)>>) : l \in Listings}

NdxPages ==
    {Raise, Page(<<Table(<<"Company">>, <<>>)>>), Page(<<Table(<<"ticker">>, <<>>)>>)}
        \cup {Page(<<Table(<<"Year">>, <<>>), Table(<<"Company", "Ticker">>, l)>>) :
                l \in Listings}

\* datetime.now(KST).strftime("%Y-%m-%d %H:%M"): 16 characters
Timestamps ==
    {<<"2", "0", "2", "6", "-", "1", "1", "-", "0", "6", " ", "0", "9", ":", "0", "0">>,
     <<"1", "9", "9", "9", "-", "1", "2", "-", "3", "1", " ", "2", "3", ":", "5", "9">>}

Init ==
    /\ pc = "start"
    /\ BOT_TOKEN \in {"", "tok"}
    /\ CHAT_ID \in {"", "chat"}
    /\ kst_now = <<>>
    /\ sp500 = <<>>
    /\ ndx = <<>>
    /\ pages = <<>>
    /\ tickers = <<>>
    /\ i = 0
    /\ hits = <<>>
    /\ last = None
    /\ failed = {}
    /\ sent = <<>>
    /\ posts = <<>>
    /\ log = <<>>
    /\ err = "none"
    /\ call = None
    /\ ret = None
    /\ returned = FALSE

\* lines 150-151
Start ==
    /\ pc = "start"
    /\ kst_now' \in Timestamps
    /\ pc' = "sp500"
    /\ UNCHANGED <<BOT_TOKEN, CHAT_ID, sp500, ndx, pages, tickers, i, hits, last,
                   failed, sent, posts, log, err, callVars>>

\* line 153
FetchSp500 ==
    /\ pc = "sp500"
    /\ \E page \in Sp500Pages :
          LET r == get_sp500_tickers(page)
          IN  /\ pages' = Append(pages, page)
              /\ IF r = Raise
                 THEN /\ pc' = "crashed"
                      /\ err' = "get_sp500_tickers"
                      /\ UNCHANGED sp500
                 ELSE /\ pc' = "ndx"
                      /\ sp500' = r.v
                      /\ UNCHANGED err
    /\ UNCHANGED <<BOT_TOKEN, CHAT_ID, kst_now, ndx, tickers, i, hits, last, failed,
                   sent, posts, log, callVars>>

\* lines 154-158
FetchNdx ==
    /\ pc = "ndx"
    /\ \E page \in NdxPages :
          LET r == get_nasdaq100_tickers(page)
          IN  /\ pages' = Append(pages, page)
              /\ IF r = Raise
                 THEN /\ pc' = "crashed"
                      /\ err' = "get_nasdaq100_tickers"
                      /\ UNCHANGED <<ndx, tickers>>
                 ELSE /\ ndx' = r.v
                      /\ tickers' = Universe(sp500, r.v)
                      /\ pc' = IF Universe(sp500, r.v) = <<>> THEN "notify" ELSE "loop"
                      /\ UNCHANGED err
    /\ UNCHANGED <<BOT_TOKEN, CHAT_ID, kst_now, sp500, i, hits, last, failed,
                   sent, posts, log, callVars>>

\* lines 159-166: one turn of the loop, the call of screen_one included
ScreenNext ==
    /\ pc = "loop"
    /\ i < Len(tickers)
    /\ \E m \in LoopMeta :
       \E d \in IF PassesPreFilters(Metadata(m.fast, m.info, m.info_raises))
                THEN LoopDownloads ELSE {None} :
          LET t == tickers[i + 1]
              res == screen_one(t, [fast |-> m.fast, info |-> m.info,
                                    info_raises |-> m.info_raises, df |-> d])
          IN  /\ last' = res @@ [index |-> i + 1, ticker |-> t]
              /\ failed' = IF res.failures # {} THEN failed \cup {i + 1} ELSE failed
              /\ IF res.raised # "none"
                 THEN /\ pc' = "crashed"
                      /\ err' = res.raised
                      /\ UNCHANGED <<hits, i>>
                 ELSE /\ hits' = IF res.value # None THEN Append(hits, res.value) ELSE hits
                      /\ i' = i + 1
                      /\ pc' = IF i + 1 = Len(tickers) THEN "notify" ELSE "loop"
                      /\ UNCHANGED err
    /\ UNCHANGED <<BOT_TOKEN, CHAT_ID, kst_now, sp500, ndx, pages, tickers,
                   sent, posts, log, callVars>>

\* lines 168-185: the message and the call of send_telegram_message
Notify ==
    /\ pc = "notify"
    /\ LET report == BuildReport(hits, kst_now)
           kind == IF hits = <<>> THEN "no matches" ELSE "report"
           text == IF hits = <<>> THEN NoMatchText(kst_now) ELSE report.message
       IN  IF hits # <<>> /\ report.raised # "none"
           THEN /\ pc' = "crashed"
                /\ err' = report.raised
                /\ UNCHANGED <<sent, posts, log>>
           ELSE \E outcome \in [1..Len(chunk_text(text, max_len_default)) -> PostOutcomes] :
                   LET r == send_telegram_message(BOT_TOKEN, CHAT_ID, text, outcome)
                   IN  /\ sent' = Append(sent, [kind |-> kind, text |-> text])
                       /\ posts' = posts \o r.posts
                       /\ log' = log \o r.log
                       /\ pc' = IF r.raised = "none" THEN "done" ELSE "crashed"
                       /\ err' = r.raised
    /\ UNCHANGED <<BOT_TOKEN, CHAT_ID, kst_now, sp500, ndx, pages, tickers, i, hits,
                   last, failed, callVars>>

Next == Start \/ FetchSp500 \/ FetchNdx \/ ScreenNext \/ Notify

Spec == Init /\ [][Next]_vars

-----------------------------------------------------------------------------
(* The report applied on its own *)

ReportTickers ==
    {<<"A", "A", "A">>, <<"B", "B", "B">>, <<"C", "C", "C">>, <<"A", "A", "B">>}

ReportResults ==
    [Ticker : ReportTickers,
     Close : {Num(1000000)},
     RSI : {None, Num(200000), Num(400000)},
     MACD : {Num(10)},
     Signal : {Num(0)},
     MarketCap : {MIN_MARKET_CAP},
     AvgVolume : {MIN_AVG_VOLUME}]

\* the results of distinct tickers, as the loop over a set collects them
DistinctTickers(rows) ==
    \A j, k \in DOMAIN rows : rows[j].Ticker = rows[k].Ticker => j = k

InitReport ==
    /\ MainIdle
    /\ call \in {[hits |-> h, now |-> n] :
                    h \in {q \in SeqsUpTo(ReportResults, MaxHits) :
                              q # <<>> /\ DistinctTickers(q)},
                    n \in Timestamps}
    /\ ret = None
    /\ returned = FALSE

CallReport ==
    /\ ~returned
    /\ ret' = BuildReport(call.hits, call.now)
    /\ returned' = TRUE
    /\ UNCHANGED <<call, mainVars>>

NextReport == CallReport

SpecReport == InitReport /\ [][NextReport]_vars

-----------------------------------------------------------------------------
(* chunk_text applied on its own *)

ChunkChars == {"a", "b"}

InitChunk ==
    /\ MainIdle
    /\ call \in {[s |-> s, max_len |-> m] :
                    s \in SeqsUpTo(ChunkChars, MaxStrLen), m \in 1..MaxChunkLen}
    /\ ret = <<>>
    /\ returned = FALSE

CallChunk ==
    /\ ~returned
    /\ ret' = chunk_text(call.s, call.max_len)
    /\ returned' = TRUE
    /\ UNCHANGED <<call, mainVars>>

NextChunk == CallChunk

SpecChunk == InitChunk /\ [][NextChunk]_vars

-----------------------------------------------------------------------------
(* send_telegram_message applied on its own *)

TextOfLen(n) == [k \in 1..n |-> IF k % 2 = 1 THEN "a" ELSE "b"]

SendLens ==
    {n \in {k * max_len_default + d : k \in 0..MaxSendChunks, d \in {-1, 0, 1}} :
        n >= 0 /\ n <= MaxSendChunks * max_len_default}

InitSend ==
    /\ MainIdle
    /\ call \in {[token |-> tk, chat_id |-> ch, text |-> TextOfLen(n)] :
                    tk \in {"", "tok"}, ch \in {"", "chat"}, n \in SendLens}
    /\ ret = NoSend
    /\ returned = FALSE

CallSend ==
    /\ ~returned
    /\ \E outcome \in [1..Len(chunk_text(call.text, max_len_default)) -> PostOutcomes] :
           ret' = send_telegram_message(call.token, call.chat_id, call.text, outcome)
    /\ returned' = TRUE
    /\ UNCHANGED <<call, mainVars>>

NextSend == CallSend

SpecSend == InitSend /\ [][NextSend]_vars

-----------------------------------------------------------------------------
(* screen_one applied on its own *)

InitScreen ==
    /\ MainIdle
    /\ call \in {[ticker |-> <<"A">>,
                  in |-> [fast |-> m.fast, info |-> m.info,
                          info_raises |-> m.info_raises, df |-> d]] :
                    m \in MetaInputs, d \in Downloads}
    /\ ret = None
    /\ returned = FALSE

CallScreen ==
    /\ ~returned
    /\ ret' = screen_one(call.ticker, call.in)
    /\ returned' = TRUE
    /\ UNCHANGED <<call, mainVars>>

NextScreen == CallScreen

SpecScreen == InitScreen /\ [][NextScreen]_vars

-----------------------------------------------------------------------------
(* Properties *)

\* the conditions of the screening rule on the last bar
CondA(bar) == Le(bar.Close, bar.bb_low)
CondB(bar) == Gt(bar.Close, bar.ma60)
CondC(bar) == Lt(bar.rsi, Num(350000)) \/ Gt(bar.macd, bar.signal)

HasHistory(in) == in.df.t = "frame" /\ in.df.indicators = "ok"

Unknown(x) == x = None \/ x = Raise
BelowMin(x, least) == ~Unknown(x) /\ x.v < least

\* C1: for a ticker that passes both pre-filters and has a price history,
\* screen_one returns a result exactly when conditions A, B and C hold on the
\* last bar.
C1_RuleEmits ==
    (returned /\ PassesPreFilters(ret) /\ HasHistory(call.in))
        => ((ret.value # None)
                <=> (CondA(call.in.df.last) /\ CondB(call.in.df.last)
                        /\ CondC(call.in.df.last)))

\* C2: a ticker whose market capitalisation or average volume is unknown or
\* below its minimum gets no result, whatever the fast path, the fallback and
\* the history hold: screen_one returns None at the pre-filter, before any
\* history is fetched. This covers the value screen_one resolved as well as
\* the case where every source of the value is unknown or too small.
C2_PreFiltersReject ==
    returned =>
        LET in == call.in
            capSmall == Unknown(ret.market_cap)
                            \/ BelowMin(ret.market_cap, MIN_MARKET_CAP)
            volSmall == Unknown(ret.avg_volume)
                            \/ BelowMin(ret.avg_volume, MIN_AVG_VOLUME)
            allCapsSmall ==
                /\ Unknown(in.fast) \/ BelowMin(in.fast, MIN_MARKET_CAP)
                /\ Unknown(in.info.marketCap)
                      \/ BelowMin(in.info.marketCap, MIN_MARKET_CAP)
            allVolsSmall ==
                /\ Unknown(in.info.averageVolume)
                      \/ BelowMin(in.info.averageVolume, MIN_AVG_VOLUME)
                /\ Unknown(in.info.averageDailyVolume10Day)
                      \/ BelowMin(in.info.averageDailyVolume10Day, MIN_AVG_VOLUME)
        IN  (capSmall \/ volSmall \/ allCapsSmall \/ allVolsSmall)
                => (ret.value = None /\ ret.raised = "none" /\ ~ret.downloaded)

\* a ticker one unit under the market-capitalisation minimum, with enough
\* volume and a last bar meeting conditions A, B and C, got no result
C2_Witness ==
    /\ returned
    /\ ret.market_cap = Num(MIN_MARKET_CAP - 1)
    /\ ret.avg_volume = Num(MIN_AVG_VOLUME)
    /\ HasHistory(call.in)
    /\ CondA(call.in.df.last) /\ CondB(call.in.df.last) /\ CondC(call.in.df.last)
    /\ ret.value = None

\* the exceptions that leave main from the listing fetches and from the
\* notification step
ListingErrors == {"get_sp500_tickers", "get_nasdaq100_tickers"}
NotifierErrors == {"ConnectionError", "TypeError"}

\* C3: a failure while one ticker is processed stays inside screen_one: the
\* call returns None and raises nothing, main goes on, is past the loop only
\* when every ticker of the universe was screened, and stops early only for a
\* listing error.
C3_FailuresContained ==
    /\ (last # None /\ last.failures # {})
          => /\ last.value = None
             /\ last.raised = "none"
             /\ \A k \in DOMAIN hits : hits[k].Ticker # last.ticker
             /\ i = last.index
    /\ pc = "crashed" => err \in ListingErrors \cup NotifierErrors
    /\ err \in ListingErrors => i = 0
    /\ (pc \in {"notify", "done"} \/ err \in NotifierErrors) => i = Len(tickers)
    /\ pc = "loop" => (i < Len(tickers) /\ err = "none")

\* the first of two tickers met a failure, the second was screened all the
\* same and main went through the notification step
C3_Witness ==
    /\ pc = "done"
    /\ Len(tickers) = 2
    /\ i = 2
    /\ 1 \in failed
    /\ Len(sent) = 1

\* C4: a delivery failure on a chunk, an error status or a transport failure,
\* does not stop the run: once main has handed its text to the notifier,
\* every chunk of it was attempted and main completed.
C4_DeliveryFailureTolerated ==
    (sent # <<>> /\ BOT_TOKEN # "" /\ CHAT_ID # "")
        => /\ pc = "done"
           /\ err = "none"
           /\ Len(posts) = Len(chunk_text(sent[1].text, max_len_default))

\* a listing is unavailable: the request or the parse raised, or no table of
\* the page has a ticker or symbol column
ListingUnavailable(page) ==
    \/ page = Raise
    \/ \A k \in DOMAIN page.tables : \A c \in DOMAIN page.tables[k].columns :
           page.tables[k].columns[c] \notin {"Ticker", "ticker", "Symbol"}

\* C5: when one of the two listing fetches fails the run aborts with that
\* error: no universe is built, no ticker is screened, nothing is sent.
C5_ListingFailureAborts ==
    (\E k \in DOMAIN pages : ListingUnavailable(pages[k]))
        => /\ pc = "crashed"
           /\ err = (IF Len(pages) = 1 THEN "get_sp500_tickers"
                     ELSE "get_nasdaq100_tickers")
           /\ tickers = <<>>
           /\ i = 0
           /\ last = None
           /\ sent = <<>>
           /\ posts = <<>>

\* the first listing came with a symbol, the second request raised
C5_Witness ==
    /\ pc = "crashed"
    /\ Len(pages) = 2
    /\ pages[2] = Raise
    /\ sp500 # <<>>
    /\ err = "get_nasdaq100_tickers"

Contains(text, sub) ==
    \E k \in 0..(Len(text) - Len(sub)) : SubSeq(text, k + 1, k + Len(sub)) = sub

\* the text with the first occurrence of sub taken out
Without(text, sub) ==
    IF ~Contains(text, sub) THEN text
    ELSE LET k == CHOOSE j \in 0..(Len(text) - Len(sub)) :
                     /\ SubSeq(text, j + 1, j + Len(sub)) = sub
                     /\ \A h \in 0..(j - 1) : SubSeq(text, h + 1, h + Len(sub)) # sub
         IN  SubSeq(text, 1, k) \o SubSeq(text, k + Len(sub) + 1, Len(text))

\* the text shows a count of zero: a digit 0 outside the timestamp
ShowsZeroCount(text, now) ==
    \E k \in DOMAIN Without(text, now) : Without(text, now)[k] = "0"

\* C6 as stated: with zero results, after the full pass exactly one "no
\* matches" notification is sent and its text holds the run timestamp and a
\* zero match count.
C6_NoMatchesWithCount ==
    (pc = "done" /\ hits = <<>>)
        => /\ Len(posts) = 1
           /\ Len(sent) = 1
           /\ sent[1].kind = "no matches"
           /\ Contains(sent[1].text, kst_now)
           /\ ShowsZeroCount(sent[1].text, kst_now)

\* C6 as amended: with zero results, after the full pass main calls the
\* notifier exactly once, with the "no matches" text and never with a report;
\* the text holds the run timestamp and no count; the call attempts that text
\* as a single message when both credentials are set and nothing otherwise.
C6_NoMatchesOnce ==
    ((pc = "done" \/ (pc = "crashed" /\ err \notin ListingErrors)) /\ hits = <<>>)
        => /\ i = Len(tickers)
           /\ Len(sent) = 1
           /\ sent[1].kind = "no matches"
           /\ Contains(sent[1].text, kst_now)
           /\ ~ShowsZeroCount(sent[1].text, kst_now)
           /\ IF BOT_TOKEN # "" /\ CHAT_ID # ""
              THEN Len(posts) = 1 /\ posts[1].part = sent[1].text
              ELSE posts = <<>>

\* two tickers were screened, none passed, and the one message was delivered
C6_Witness ==
    /\ pc = "done"
    /\ Len(tickers) = 2
    /\ i = 2
    /\ hits = <<>>
    /\ Len(posts) = 1
    /\ posts[1].outcome = "ok"

\* C7: the universe is a set of normalised symbols: raw entries of the two
\* listings that normalise to the same symbol appear in it exactly once, and
\* it is no larger than the two listings together.
C7_UniverseNormalized ==
    pc \in {"loop", "notify", "done"}
        => /\ \A a \in SetOf(sp500 \o ndx) :
                 Cardinality({k \in DOMAIN tickers :
                                yahoo_symbol_fix(tickers[k]) = yahoo_symbol_fix(a)}) = 1
           /\ Len(tickers) <= Len(sp500) + Len(ndx)

Ceil(a, b) == (a + b - 1) \div b

RECURSIVE Concat(_)
Concat(parts) == IF parts = <<>> THEN <<>> ELSE parts[1] \o Concat(Tail(parts))

\* C8: chunk_text(s, max_len) with max_len >= 1 returns ceil(len(s)/max_len)
\* parts, each at most max_len long, whose concatenation in order is s.
C8_ChunkText ==
    returned =>
        /\ Len(ret) = Ceil(Len(call.s), call.max_len)
        /\ \A k \in DOMAIN ret : Len(ret[k]) <= call.max_len
        /\ Concat(ret) = call.s

\* a string of three characters cut at two: a full part and a shorter one
C8_Witness ==
    /\ returned
    /\ Len(call.s) = 3
    /\ call.max_len = 2
    /\ Len(ret) = 2
    /\ Len(ret[2]) = 1

\* C9: send_telegram_message with an empty token or an empty chat id makes
\* no request and raises nothing, whatever the text; it prints its warning.
C9_SendNoOp ==
    (returned /\ (call.token = "" \/ call.chat_id = ""))
        => /\ ret.posts = <<>>
           /\ ret.raised = "none"
           /\ ret.log = <<<<"send skipped">>>>

\* a text longer than one chunk, a token but no chat id: nothing was posted
C9_Witness ==
    /\ returned
    /\ call.token # ""
    /\ call.chat_id = ""
    /\ Len(call.text) > max_len_default
    /\ ret.posts = <<>>

\* C10: the report lists the collected results by ascending RSI, results
\* without RSI after all others, ties in ticker order, whatever order they
\* were collected in; the lines of the message follow that order.
C10_ReportOrder ==
    returned =>
        /\ Len(ret.df) = Len(call.hits)
        /\ {ret.df[k].Ticker : k \in DOMAIN ret.df}
              = {call.hits[k].Ticker : k \in DOMAIN call.hits}
        /\ \A k \in DOMAIN ret.df : \E j \in DOMAIN call.hits :
              /\ call.hits[j].Ticker = ret.df[k].Ticker
              /\ IF call.hits[j].RSI = None THEN IsNull(ret.df[k].RSI)
                 ELSE ret.df[k].RSI = call.hits[j].RSI
        /\ \A j, k \in DOMAIN ret.df :
              j < k =>
                 /\ IsNull(ret.df[j].RSI) => IsNull(ret.df[k].RSI)
                 /\ (~IsNull(ret.df[j].RSI) /\ ~IsNull(ret.df[k].RSI))
                       => ret.df[j].RSI.v <= ret.df[k].RSI.v
                 /\ (IsNull(ret.df[j].RSI) /\ IsNull(ret.df[k].RSI))
                       => StrLess(ret.df[j].Ticker, ret.df[k].Ticker)
                 /\ (~IsNull(ret.df[j].RSI) /\ ret.df[j].RSI = ret.df[k].RSI)
                       => StrLess(ret.df[j].Ticker, ret.df[k].Ticker)
        /\ ret.raised = "none" =>
              /\ Len(ret.lines) = 3 + Len(ret.df)
              /\ \A k \in DOMAIN ret.df :
                    SubSeq(ret.lines[3 + k], 1, 6) = RJust(ret.df[k].Ticker, 6)

\* CCC without RSI, AAA with 40 and BBB with 20, collected in that order,
\* are reported as BBB, AAA, CCC
C10_Witness ==
    /\ returned
    /\ Len(call.hits) = 3
    /\ call.hits[1].Ticker = <<"C", "C", "C">> /\ call.hits[1].RSI = None
    /\ call.hits[2].Ticker = <<"A", "A", "A">> /\ call.hits[2].RSI = Num(400000)
    /\ call.hits[3].Ticker = <<"B", "B", "B">> /\ call.hits[3].RSI = Num(200000)
    /\ ret.raised = "none"
    /\ ret.df[1].Ticker = <<"B", "B", "B">>
    /\ ret.df[2].Ticker = <<"A", "A", "A">>
    /\ ret.df[3].Ticker = <<"C", "C", "C">>

====
